---- MODULE Spec2Model ----
(***************************************************************************)
(* The real-time chat of server.js: the presence registry (onlineUsers),    *)
(* the rolling message log (chatMessages) and the socket handlers joinChat, *)
(* sendMessage, disconnect and typing, with the events each handler emits.  *)
(* Node runs one handler at a time to completion, so every handler is one   *)
(* atomic action.  The HTTP routes register, login, activities and          *)
(* process-payment work on the users list and the activity log, which no    *)
(* socket handler touches; they are explored under a specification of       *)
(* their own.                                                               *)
(***************************************************************************)
EXTENDS Integers, Sequences, FiniteSets, TLC

\* ------------------------------------------------------------------ bounds

\* sendMessage events handled after the initial state
MaxSends == 2

\* entries of the activity log beyond which no further login is explored
MaxActivities == 3

\* ------------------------------------------------------- program constants

\* chatMessages.length > 100, chatMessages.slice(-100)
MaxMessages == 100

\* chatMessages.slice(-10)
RecentCount == 10

\* ------------------------------------------------------------------ inputs

\* socket.id of the connections that are opened during a run
Sockets == {"s1", "s2"}

\* socket.id of an earlier connection: it was opened, sent the messages the
\* initial log holds, one per clock value, without joining, and was closed
PriorSocket == "s0"

\* how many messages the earlier connection sent: none (the log as
\* constructed), one short of a full recentMessages reply, one short of a
\* full log
PriorCounts == {0, RecentCount - 1, MaxMessages - 1}

\* JavaScript's undefined and null
Undefined == "undefined"
Null == "null"

\* userData of joinChat: an object whose name is absent or a string
JoinPayloads ==
    { [name |-> Undefined, userId |-> Undefined],
      [name |-> "Ann", userId |-> "u1"] }

\* data of sendMessage: an object with the text
SendPayloads == { [message |-> "hi"] }

\* data of typing
TypingPayloads ==
    { [username |-> "Zed", isTyping |-> TRUE] }

\* what Date.now() may have advanced by since it was last read
ClockSteps == {0, 1}

\* req.body of POST /api/register and POST /api/login
Emails == {"a@x", "b@x"}

Passwords == {"pw", "bad"}

RegisterBodies == [name : {"Ann"}, email : Emails, password : {"pw"}]

LoginBodies == [email : Emails, password : Passwords]

\* a userId that is the id of no user (absent, or not a number)
NoUserId == -1

\* req.body of POST /api/process-payment; the ids are the clock values a
\* registration can have read
PaymentBodies ==
    [method : {"card", "paypal", "bank", "cash"}, amount : {10},
     userId : {NoUserId} \cup (0 .. Cardinality(Emails))]

\* ------------------------------------------------------------------- state

VARIABLES
    status,         \* socket.id -> "idle" | "connected" | "disconnected"
    onlineUsers,    \* the Map: a function from the socket.id keys it holds
    chatMessages,   \* the message log
    now,            \* the value Date.now() returned last
    emitted,        \* the emit calls of the handler that ran last, in order
    last,           \* the event that handler handled
    prior,          \* history: messages the earlier connection had pushed
    pushed,         \* history: the messages pushed by the sendMessage events
    wire,           \* history: the payload of every message event emitted
    joined,         \* history: the sockets that have handled a joinChat
    recentsSinceSend \* history: recentMessages payloads since the last push

VARIABLES
    users,          \* the users list
    activities,     \* the activity log
    http            \* the HTTP request handled last and its response

\* what the socket handlers leave alone
httpVars == << users, activities, http >>

\* what the HTTP routes leave alone: all of the chat but the clock
chatVars == << status, onlineUsers, chatMessages, emitted, last, prior,
              pushed, wire, joined, recentsSinceSend >>

vars == << status, onlineUsers, chatMessages, now, emitted, last, prior,
           pushed, wire, joined, recentsSinceSend, users, activities, http >>

\* ----------------------------------------------------------------- helpers

\* the sockets of the namespace
Connected == { s \in Sockets : status[s] = "connected" }

\* Map.prototype.has, get (of a key the map holds), set and delete
MapHas(map, key) == key \in DOMAIN map

MapGet(map, key) == map[key]

\* fault: set that drops every other key
MapSetOnly(map, key, value) == [k \in {key} |-> value]

MapSet(map, key, value) ==
    [k \in DOMAIN map \cup {key} |-> IF k = key THEN value ELSE map[k]]

\* fault: delete that removes nothing
MapKeep(map, key) == map

MapDelete(map, key) == [k \in DOMAIN map \ {key} |-> map[k]]

\* Array.prototype.slice(-n) for n > 0
SliceLast(arr, n) ==
    IF Len(arr) <= n THEN arr ELSE SubSeq(arr, Len(arr) - n + 1, Len(arr))

\* x || dflt on a string or undefined
OrDefault(x, dflt) == IF x = Undefined \/ x = "" THEN dflt ELSE x

\* one emit call: the event, the sockets it is sent to, the payload
Emit(event, to, payload) == [event |-> event, to |-> to, payload |-> payload]

\* the message the earlier connection sent at clock value i
PriorMessage(i) ==
    [id |-> i, message |-> "hello", sender |-> "Guest", userId |-> Null,
     socketId |-> PriorSocket]

PriorLog(n) == [i \in 1..n |-> PriorMessage(i)]

\* every message ever pushed onto chatMessages, in push order
Appended == PriorLog(prior) \o pushed

\* the emit calls of the last handler that carry the given event
Calls(event) == { i \in DOMAIN emitted : emitted[i].event = event }

\* -------------------------------------------------------------------- Init

Init ==
    /\ status = [s \in Sockets |-> "idle"]
    /\ onlineUsers = << >>
    /\ prior \in PriorCounts
    /\ chatMessages = PriorLog(prior)
    /\ now = prior
    /\ emitted = << >>
    /\ last = [type |-> "none", socket |-> "none", data |-> Undefined]
    /\ pushed = << >>
    /\ wire = << >>
    /\ joined = {}
    /\ recentsSinceSend = {}
    /\ users = << >>
    /\ activities = << >>
    /\ http = [route |-> "none", body |-> Undefined, status |-> 0,
               error |-> ""]

\* ---------------------------------------------------------------- handlers

\* io.on('connection'): the socket enters the namespace, its handlers are set
Connection(c) ==
    /\ status[c] = "idle"
    /\ status' = [status EXCEPT ![c] = "connected"]
    /\ emitted' = << >>
    /\ last' = [type |-> "connection", socket |-> c, data |-> Undefined]
    /\ UNCHANGED << onlineUsers, chatMessages, now, prior, pushed, wire,
                    joined, recentsSinceSend >>

\* io.emit(...): every socket of the namespace
\* fault: only the registered sockets
IoEmitRegistered == DOMAIN onlineUsers

IoEmitTargets == Connected

\* socket.broadcast.emit(...) on socket c: every socket of the namespace but c
\* fault: the sender too
BroadcastAll(c) == Connected

\* fault: only the registered sockets but c
BroadcastRegistered(c) == DOMAIN onlineUsers \ {c}

BroadcastTargets(c) == Connected \ {c}

\* chatMessages.slice(-10)
\* fault: the oldest ten
RecentFirst(log) ==
    IF Len(log) <= RecentCount THEN log ELSE SubSeq(log, 1, RecentCount)

RecentMessages(log) == SliceLast(log, RecentCount)

\* the array slice(-10) was called on: slice copies, the array is as it was
\* fault: splice, which removes what it returns
AfterSplice(log) == SubSeq(log, 1, Len(log) - Len(SliceLast(log, RecentCount)))

AfterSlice(log) == log

\* socket.on('joinChat')
JoinChat(c, userData) ==
    /\ status[c] = "connected"
    /\ LET username == OrDefault(userData.name, "Guest")
           recentMessages == RecentMessages(chatMessages)
       IN  /\ onlineUsers' = MapSet(onlineUsers, c,
                                    [username |-> username,
                                     userId |-> userData.userId])
           /\ chatMessages' = AfterSlice(chatMessages)
           /\ emitted' = << Emit("recentMessages", {c}, recentMessages),
                            Emit("userJoined", BroadcastTargets(c),
                                 [username |-> username]) >>
           /\ recentsSinceSend' = recentsSinceSend \cup {recentMessages}
    /\ joined' = joined \cup {c}
    /\ last' = [type |-> "joinChat", socket |-> c, data |-> userData]
    /\ UNCHANGED << status, now, prior, pushed, wire >>

\* the messageData object of sendMessage; user is onlineUsers.get(socket.id),
\* timestamp (a second reading of the clock that nothing reads back) left out
\* fault: user?.username and user?.userId, undefined without a record
MessageDataOptional(c, data, id) ==
    [id |-> id,
     message |-> data.message,
     sender |-> IF MapHas(onlineUsers, c)
                THEN MapGet(onlineUsers, c).username ELSE Undefined,
     userId |-> IF MapHas(onlineUsers, c)
                THEN MapGet(onlineUsers, c).userId ELSE Undefined,
     socketId |-> c]

MessageData(c, data, id) ==
    [id |-> id,
     message |-> data.message,
     sender |-> IF MapHas(onlineUsers, c)
                THEN MapGet(onlineUsers, c).username ELSE "Guest",
     userId |-> IF MapHas(onlineUsers, c)
                THEN MapGet(onlineUsers, c).userId ELSE Null,
     socketId |-> c]

\* chatMessages.push(messageData)
\* fault: the message is pushed twice
PushTwice(log, messageData) == Append(Append(log, messageData), messageData)

\* fault: unshift, the new message first
Unshift(log, messageData) == << messageData >> \o log

Push(log, messageData) == Append(log, messageData)

\* if (chatMessages.length > 100) chatMessages = chatMessages.slice(-100)
\* fault: truncates one message late
KeepLastLate(log) ==
    IF Len(log) > MaxMessages + 1 THEN SliceLast(log, MaxMessages) ELSE log

\* fault: keeps the oldest 100
KeepFirst(log) ==
    IF Len(log) > MaxMessages THEN SubSeq(log, 1, MaxMessages) ELSE log

KeepLast(log) ==
    IF Len(log) > MaxMessages THEN SliceLast(log, MaxMessages) ELSE log

\* io.emit('message', messageData)
\* fault: the event goes out twice
SendEmitsTwice(messageData) ==
    << Emit("message", IoEmitTargets, messageData),
       Emit("message", IoEmitTargets, messageData) >>

SendEmits(messageData) == << Emit("message", IoEmitTargets, messageData) >>

\* socket.on('sendMessage')
SendMessage(c, data) ==
    /\ status[c] = "connected"
    /\ Len(pushed) < MaxSends
    /\ \E d \in ClockSteps :
          LET id == now + d
              messageData == MessageData(c, data, id)
          IN  /\ now' = id
              /\ chatMessages' = KeepLast(Push(chatMessages, messageData))
              /\ pushed' = Append(pushed, messageData)
              /\ emitted' = SendEmits(messageData)
    /\ wire' = wire \o [i \in DOMAIN emitted' |-> emitted'[i].payload]
    /\ recentsSinceSend' = {}
    /\ last' = [type |-> "sendMessage", socket |-> c, data |-> data]
    /\ UNCHANGED << status, onlineUsers, prior, joined >>

\* socket.on('disconnect'): the socket has left the namespace
\* fault: no if (user) guard, userLeft goes out for any socket
DisconnectUnguarded(c) ==
    /\ status[c] = "connected"
    /\ status' = [status EXCEPT ![c] = "disconnected"]
    /\ emitted' = << Emit("userLeft", BroadcastTargets(c),
                          [username |->
                             IF MapHas(onlineUsers, c)
                             THEN MapGet(onlineUsers, c).username
                             ELSE "Guest"]) >>
    /\ onlineUsers' = MapDelete(onlineUsers, c)
    /\ last' = [type |-> "disconnect", socket |-> c, data |-> Undefined]
    /\ UNCHANGED << chatMessages, now, prior, pushed, wire, joined,
                    recentsSinceSend >>

\* fault: the record is deleted before its username is read
DisconnectDeleteFirst(c) ==
    /\ status[c] = "connected"
    /\ status' = [status EXCEPT ![c] = "disconnected"]
    /\ IF MapHas(onlineUsers, c)
       THEN /\ emitted' = << Emit("userLeft", BroadcastTargets(c),
                                  [username |-> Undefined]) >>
            /\ onlineUsers' = MapDelete(onlineUsers, c)
       ELSE /\ emitted' = << >>
            /\ UNCHANGED onlineUsers
    /\ last' = [type |-> "disconnect", socket |-> c, data |-> Undefined]
    /\ UNCHANGED << chatMessages, now, prior, pushed, wire, joined,
                    recentsSinceSend >>

Disconnect(c) ==
    /\ status[c] = "connected"
    /\ status' = [status EXCEPT ![c] = "disconnected"]
    /\ IF MapHas(onlineUsers, c)
       THEN /\ emitted' = << Emit("userLeft", BroadcastTargets(c),
                                  [username |->
                                     MapGet(onlineUsers, c).username]) >>
            /\ onlineUsers' = MapDelete(onlineUsers, c)
       ELSE /\ emitted' = << >>
            /\ UNCHANGED onlineUsers
    /\ last' = [type |-> "disconnect", socket |-> c, data |-> Undefined]
    /\ UNCHANGED << chatMessages, now, prior, pushed, wire, joined,
                    recentsSinceSend >>

\* the disconnect handler run once more for a socket that is closed already
DisconnectAgain(c) ==
    /\ status[c] = "disconnected"
    /\ IF MapHas(onlineUsers, c)
       THEN /\ emitted' = << Emit("userLeft", BroadcastTargets(c),
                                  [username |->
                                     MapGet(onlineUsers, c).username]) >>
            /\ onlineUsers' = MapDelete(onlineUsers, c)
       ELSE /\ emitted' = << >>
            /\ UNCHANGED onlineUsers
    /\ last' = [type |-> "disconnect", socket |-> c, data |-> Undefined]
    /\ UNCHANGED << status, chatMessages, now, prior, pushed, wire, joined,
                    recentsSinceSend >>

\* socket.on('typing')
\* fault: the username is looked up in the registry, Guest without a record
TypingFromRegistry(c, data) ==
    /\ status[c] = "connected"
    /\ emitted' = << Emit("userTyping", BroadcastTargets(c),
                          [username |-> IF MapHas(onlineUsers, c)
                                        THEN MapGet(onlineUsers, c).username
                                        ELSE "Guest",
                           isTyping |-> data.isTyping]) >>
    /\ last' = [type |-> "typing", socket |-> c, data |-> data]
    /\ UNCHANGED << status, onlineUsers, chatMessages, now, prior, pushed,
                    wire, joined, recentsSinceSend >>

\* fault: typing registers the sender under the username it gives
TypingRegisters(c, data) ==
    /\ status[c] = "connected"
    /\ emitted' = << Emit("userTyping", BroadcastTargets(c),
                          [username |-> data.username,
                           isTyping |-> data.isTyping]) >>
    /\ onlineUsers' = MapSet(onlineUsers, c,
                             [username |-> data.username,
                              userId |-> Undefined])
    /\ last' = [type |-> "typing", socket |-> c, data |-> data]
    /\ UNCHANGED << status, chatMessages, now, prior, pushed, wire, joined,
                    recentsSinceSend >>

Typing(c, data) ==
    /\ status[c] = "connected"
    /\ emitted' = << Emit("userTyping", BroadcastTargets(c),
                          [username |-> data.username,
                           isTyping |-> data.isTyping]) >>
    /\ last' = [type |-> "typing", socket |-> c, data |-> data]
    /\ UNCHANGED << status, onlineUsers, chatMessages, now, prior, pushed,
                    wire, joined, recentsSinceSend >>

\* ------------------------------------------------------------- HTTP routes

\* Array.prototype.find: the index of the first element of the set of
\* matching indexes, 0 when there is none
FindFirst(matching) ==
    IF matching = {} THEN 0
    ELSE CHOOSE i \in matching : \A j \in matching : i <= j

\* users.find(user => user.email === email)
\* fault: the name is compared instead of the email
UserByName(email) ==
    FindFirst({ i \in DOMAIN users : users[i].name = email })

UserByEmail(email) ==
    FindFirst({ i \in DOMAIN users : users[i].email = email })

\* the newUser object of register; createdAt is left out
\* fault: users are created verified
NewUserVerified(body, id) ==
    [id |-> id, name |-> body.name, email |-> body.email,
     password |-> body.password, verified |-> TRUE,
     verificationPending |-> FALSE]

NewUser(body, id) ==
    [id |-> id, name |-> body.name, email |-> body.email,
     password |-> body.password, verified |-> FALSE,
     verificationPending |-> FALSE]

\* one HTTP request with its response
Response(route, body, code, error) ==
    [route |-> route, body |-> body, status |-> code, error |-> error]

\* app.post('/api/register'); the welcome mail is sent off and only logged
Register(body) ==
    IF UserByEmail(body.email) # 0
    THEN /\ http' = Response("register", body, 400, "User already exists")
         /\ UNCHANGED << users, activities, now >>
    ELSE \E d \in ClockSteps :
            /\ now' = now + d
            /\ users' = Append(users, NewUser(body, now + d))
            /\ activities' = Append(activities,
                                    [type |-> "REGISTER", user |-> body.email])
            /\ http' = Response("register", body, 200, "")

\* app.post('/api/login')
Login(body) ==
    /\ Len(activities) < MaxActivities
    /\ LET found == FindFirst({ i \in DOMAIN users :
                                  /\ users[i].email = body.email
                                  /\ users[i].password = body.password })
       IN  IF found = 0
           THEN /\ http' = Response("login", body, 401,
                                    "Invalid email or password")
                /\ UNCHANGED activities
           ELSE /\ activities' = Append(activities,
                                        [type |-> "LOGIN",
                                         user |-> users[found].email])
                /\ http' = Response("login", body, 200, "")
    /\ UNCHANGED << users, now >>

\* app.get('/api/activities')
GetActivities ==
    /\ http' = Response("activities", activities, 200, "")
    /\ UNCHANGED << users, activities, now >>

\* activities.push({type: 'PAYMENT', ...})
PaymentActivity(user, body) ==
    [type |-> "PAYMENT", user |-> user.email, amount |-> body.amount,
     method |-> body.method]

\* app.post('/api/process-payment'); stripe.paymentIntents.create resolves
\* or throws, and a throw is answered 500 by the catch
ProcessPayment(body) ==
    /\ LET found == FindFirst({ i \in DOMAIN users :
                                  users[i].id = body.userId })
       IN  IF found = 0
           THEN /\ http' = Response("payment", body, 401, "User not found")
                /\ UNCHANGED activities
           ELSE IF ~users[found].verified
           THEN /\ http' = Response("payment", body, 403,
                                    "User must be verified to make payments")
                /\ UNCHANGED activities
           ELSE IF body.method = "card"
           THEN \/ /\ activities' =
                         Append(activities,
                                PaymentActivity(users[found], body))
                   /\ http' = Response("payment", body, 200, "")
                \/ /\ http' = Response("payment", body, 500,
                                        "Payment processing failed")
                   /\ UNCHANGED activities
           ELSE IF body.method \in {"paypal", "bank"}
           THEN /\ activities' =
                      Append(activities, PaymentActivity(users[found], body))
                /\ http' = Response("payment", body, 200, "")
           ELSE /\ http' = Response("payment", body, 400,
                                    "Invalid payment method")
                /\ UNCHANGED activities
    /\ UNCHANGED << users, now >>

\* ------------------------------------------------------------ specification

Next ==
    \/ \E c \in Sockets : Connection(c) /\ UNCHANGED httpVars
    \/ \E c \in Sockets, userData \in JoinPayloads :
          JoinChat(c, userData) /\ UNCHANGED httpVars
    \/ \E c \in Sockets, data \in SendPayloads :
          SendMessage(c, data) /\ UNCHANGED httpVars
    \/ \E c \in Sockets : Disconnect(c) /\ UNCHANGED httpVars
    \/ \E c \in Sockets : DisconnectAgain(c) /\ UNCHANGED httpVars
    \/ \E c \in Sockets, data \in TypingPayloads :
          Typing(c, data) /\ UNCHANGED httpVars

Spec == Init /\ [][Next]_vars

\* the HTTP routes alone, on the server as constructed
HttpNext ==
    \/ \E body \in RegisterBodies : Register(body) /\ UNCHANGED chatVars
    \/ \E body \in LoginBodies : Login(body) /\ UNCHANGED chatVars
    \/ GetActivities /\ UNCHANGED chatVars
    \/ \E body \in PaymentBodies : ProcessPayment(body) /\ UNCHANGED chatVars

HttpInit == Init /\ prior = 0

SpecHttp == HttpInit /\ [][HttpNext]_vars

\* ------------------------------------------------------------------ claims

\* the smaller of two numbers
Min(a, b) == IF a < b THEN a ELSE b

\* the display name a socket's messages and events go out under
DisplayName(c) ==
    IF c \in DOMAIN onlineUsers THEN onlineUsers[c].username ELSE "Guest"

\* C1: whenever a handler has finished, the message log holds at most 100
\* messages.
C1_LogAtMostCapacity == Len(chatMessages) <= MaxMessages

\* C1 witness: a sendMessage has pushed onto a full log, so one more message
\* has been pushed than the log may hold.
C1_Witness ==
    /\ last.type = "sendMessage"
    /\ Len(Appended) > MaxMessages
    /\ Len(chatMessages) = MaxMessages

\* C2: after every sendMessage the log is the most recently pushed
\* min(k, 100) messages, in push order, k being the number pushed so far.
C2_LogIsNewestInOrder ==
    LET all == Appended
        k == Len(all)
        m == Min(k, MaxMessages)
    IN  /\ Len(chatMessages) = m
        /\ \A i \in 1..m : chatMessages[i] = all[k - m + i]

\* C2 witness: message #101 was pushed onto a full log; the log starts at
\* message #2 and ends at message #101.
C2_Witness ==
    /\ last.type = "sendMessage"
    /\ Len(Appended) = MaxMessages + 1
    /\ chatMessages[1] = Appended[2]
    /\ chatMessages[1] # Appended[1]
    /\ chatMessages[MaxMessages] = Appended[MaxMessages + 1]

\* C3: a joinChat emits one recentMessages event, to the joining socket
\* alone, whose payload is the last min(10, n) messages of the n-message log
\* as it stands, oldest first; no other handler emits a recentMessages event.
C3_JoinGetsLastTen ==
    /\ Calls("recentMessages") # {} => last.type = "joinChat"
    /\ last.type = "joinChat" =>
          /\ Cardinality(Calls("recentMessages")) = 1
          /\ \A i \in Calls("recentMessages") :
                LET n == Len(chatMessages)
                    m == Min(RecentCount, n)
                    payload == emitted[i].payload
                IN  /\ emitted[i].to = {last.socket}
                    /\ Len(payload) = m
                    /\ \A j \in 1..m : payload[j] = chatMessages[n - m + j]

\* C3 witness: a socket joins, beside another connected socket, when the log
\* holds more than 10 messages of which the newest was sent in this run.
C3_Witness ==
    /\ last.type = "joinChat"
    /\ Cardinality(Connected) = 2
    /\ Len(chatMessages) = RecentCount + 1
    /\ pushed # << >>
    /\ \E i \in Calls("recentMessages") :
          /\ Len(emitted[i].payload) = RecentCount
          /\ emitted[i].payload[1] = chatMessages[2]

\* C4: a sendMessage emits exactly one message event; it goes to every
\* connected socket, the sender among them, and carries the sender's display
\* name and the text that was sent.
C4_MessageToAllWithSender ==
    last.type = "sendMessage" =>
       /\ Cardinality(Calls("message")) = 1
       /\ \A i \in Calls("message") :
             /\ emitted[i].to = { s \in Sockets : status[s] = "connected" }
             /\ last.socket \in emitted[i].to
             /\ emitted[i].payload.sender = DisplayName(last.socket)
             /\ emitted[i].payload.message = last.data.message

\* C4 witness: a socket that joined as Ann sends while a second socket is
\* connected.
C4_Witness ==
    /\ last.type = "sendMessage"
    /\ Cardinality(Connected) = 2
    /\ DisplayName(last.socket) = "Ann"
    /\ \E i \in Calls("message") : emitted[i].payload.sender = "Ann"

\* C5: every message event carries the message its handler has just pushed,
\* which the log holds as its newest when the event goes out; only
\* sendMessage emits message events, and there are as many message events
\* as messages pushed, so none is broadcast twice and none is made up.
C5_MessageEventIsThePush ==
    /\ Len(wire) = Len(pushed)
    /\ \A i \in Calls("message") :
          /\ last.type = "sendMessage"
          /\ pushed # << >>
          /\ emitted[i].payload = pushed[Len(pushed)]
          /\ emitted[i].payload = chatMessages[Len(chatMessages)]

\* C5 witness: the second sendMessage of a run has emitted its event.
C5_Witness ==
    /\ last.type = "sendMessage"
    /\ Len(pushed) = 2
    /\ Calls("message") # {}

\* C6: the message events go out in the order the log holds their messages:
\* the events emitted so far are, in emission order, the newest messages of
\* the log.  A connection is sent a subsequence of these events, in order.
C6_WireOrderIsLogOrder ==
    LET k == Len(wire)
        n == Len(chatMessages)
    IN  /\ k <= n
        /\ \A i \in 1..k : wire[i] = chatMessages[n - k + i]

\* C6 witness: two different sockets have each sent a message, the two
\* messages differ, and both sockets were sent both events.
C6_Witness ==
    /\ Len(wire) = 2
    /\ wire[1].socketId # wire[2].socketId
    /\ Cardinality(Connected) = 2
    /\ last.type = "sendMessage"
    /\ \E i \in Calls("message") : emitted[i].to = Sockets

\* C7: the socket whose joinChat, disconnect or typing was handled is not
\* sent the userJoined, userLeft or userTyping event it caused.
C7_NoEchoToOrigin ==
    \A i \in DOMAIN emitted :
       emitted[i].event \in {"userJoined", "userLeft", "userTyping"} =>
          /\ last.type \in {"joinChat", "disconnect", "typing"}
          /\ last.socket \notin emitted[i].to

\* C7 witness: a registered socket disconnects and the other connected
\* socket is sent userLeft.
C7_Witness ==
    /\ last.type = "disconnect"
    /\ \E i \in Calls("userLeft") :
          /\ emitted[i].to # {}
          /\ last.socket \notin emitted[i].to

\* C8: the disconnect of a socket that never joined emits nothing and leaves
\* the registry and the log as they were.
C8_DisconnectUnjoinedNoOp ==
    [][ \A c \in Sockets :
          ( /\ status[c] = "connected"
            /\ status'[c] = "disconnected"
            /\ c \notin joined )
          => /\ emitted' = << >>
             /\ onlineUsers' = onlineUsers
             /\ chatMessages' = chatMessages ]_vars

\* C8 witness: a socket that never joined has disconnected while the other
\* socket was connected and registered.
C8_Witness ==
    /\ last.type = "disconnect"
    /\ last.socket \notin joined
    /\ emitted = << >>
    /\ \E s \in Connected : s \in DOMAIN onlineUsers

\* C9: the registry holds a record for exactly the sockets that have joined
\* and have not disconnected, one per socket id; after a joinChat the
\* joiner's record carries the name (Guest when none was given) and the user
\* id of that joinChat.
C9_RegistryIsJoinedAndConnected ==
    /\ DOMAIN onlineUsers = { s \in joined : status[s] = "connected" }
    /\ last.type = "joinChat" =>
          onlineUsers[last.socket] =
             [username |-> IF last.data.name \in {Undefined, ""}
                           THEN "Guest" ELSE last.data.name,
              userId |-> last.data.userId]

\* C9 witness: a socket that had joined without a name, and sent a message
\* under that record, joins again as Ann; the other socket has joined and
\* disconnected.
C9_Witness ==
    /\ last.type = "joinChat"
    /\ last.data.name = "Ann"
    /\ \E i \in DOMAIN pushed :
          /\ pushed[i].socketId = last.socket
          /\ pushed[i].userId = Undefined
    /\ DOMAIN onlineUsers = {last.socket}
    /\ onlineUsers[last.socket].username = "Ann"
    /\ joined = Sockets

\* C10: a joinChat leaves the message log as it was, and the joinChat events
\* handled between two pushes are all sent the same recentMessages payload.
C10_RecentIsPure ==
    /\ [](Cardinality(recentsSinceSend) <= 1)
    /\ [][ last'.type = "joinChat" => chatMessages' = chatMessages ]_vars

\* C10 witness: both sockets have joined, the second after the first, with no
\* sendMessage handled at all, on a log that holds messages.
C10_Witness ==
    /\ last.type = "joinChat"
    /\ pushed = << >>
    /\ DOMAIN onlineUsers = Sockets
    /\ chatMessages # << >>
    /\ Cardinality(recentsSinceSend) = 1

\* C11: a sendMessage step adds exactly the one message it builds to the end
\* of the log and, on a full log, drops the oldest entry in the same step;
\* every other step leaves the log as it is, so no handler meets a log of
\* more than 100 messages or one that is half evicted.
C11_SendIsOneAtomicAppend ==
    [][ /\ Len(chatMessages) <= MaxMessages
        /\ Len(chatMessages') <= MaxMessages
        /\ IF pushed' # pushed
           THEN LET m == pushed'[Len(pushed')]
                IN  /\ Len(pushed') = Len(pushed) + 1
                    /\ chatMessages' =
                          IF Len(chatMessages) < MaxMessages
                          THEN chatMessages \o << m >>
                          ELSE Tail(chatMessages) \o << m >>
           ELSE chatMessages' = chatMessages ]_vars

\* C11 witness: two different sockets have sent, one after the other, onto a
\* log one short of full; the log is full and ends with their two messages.
C11_Witness ==
    /\ Len(pushed) = 2
    /\ pushed[1].socketId # pushed[2].socketId
    /\ prior = MaxMessages - 1
    /\ Len(chatMessages) = MaxMessages
    /\ chatMessages[MaxMessages - 1] = pushed[1]
    /\ chatMessages[MaxMessages] = pushed[2]

\* C12 as claimed: the userJoined of a joinChat goes to exactly the other
\* registered sockets.
C12_JoinedToRegisteredOnly ==
    last.type = "joinChat" =>
       \A i \in Calls("userJoined") :
          emitted[i].to = DOMAIN onlineUsers \ {last.socket}

\* C12 amended: a joinChat emits one userJoined event, carrying the joiner's
\* display name, to exactly the other connected sockets, whether they have
\* joined or not.
C12_JoinedToOtherConnected ==
    last.type = "joinChat" =>
       /\ Cardinality(Calls("userJoined")) = 1
       /\ \A i \in Calls("userJoined") :
             /\ emitted[i].to =
                   { s \in Sockets : status[s] = "connected" } \ {last.socket}
             /\ emitted[i].payload =
                   [username |-> IF last.data.name \in {Undefined, ""}
                                 THEN "Guest" ELSE last.data.name]

\* C12 witness: a socket joins as Ann while the other socket is connected
\* and has not joined; the other socket is sent userJoined.
C12_Witness ==
    /\ last.type = "joinChat"
    /\ last.data.name = "Ann"
    /\ \E s \in Connected \ {last.socket} :
          /\ s \notin DOMAIN onlineUsers
          /\ \E i \in Calls("userJoined") : s \in emitted[i].to

\* C13: the disconnect of a registered socket removes its record and emits
\* one userLeft event, with the username of the record, to the other
\* connected sockets; a record changes only by a joinChat of its own socket,
\* so that username is the one of the latest joinChat; a disconnect handled
\* again for a closed socket emits nothing.
C13_DisconnectEmitsOneUserLeft ==
    [][ \A c \in Sockets :
          /\ ( /\ status[c] = "connected"
               /\ status'[c] = "disconnected"
               /\ c \in DOMAIN onlineUsers )
             => /\ c \notin DOMAIN onlineUsers'
                /\ emitted' =
                      << [event |-> "userLeft",
                          to |-> { s \in Sockets : status'[s] = "connected" },
                          payload |->
                             [username |-> onlineUsers[c].username]] >>
          /\ ( /\ c \in DOMAIN onlineUsers
               /\ c \in DOMAIN onlineUsers'
               /\ onlineUsers'[c] # onlineUsers[c] )
             => (last'.type = "joinChat" /\ last'.socket = c)
          /\ ( /\ status[c] = "disconnected"
               /\ last'.type = "disconnect"
               /\ last'.socket = c )
             => emitted' = << >> ]_vars

\* C13 witness: a socket that joined as Ann has disconnected, the other
\* socket was sent userLeft for Ann.
C13_Witness ==
    /\ last.type = "disconnect"
    /\ last.socket \in joined
    /\ \E i \in Calls("userLeft") :
          /\ emitted[i].payload.username = "Ann"
          /\ emitted[i].to # {}

\* C14: a sendMessage of a socket without a presence record pushes its
\* message, attributed to sender Guest with user id null, emits it to every
\* connected socket, and leaves the registry as it was.
C14_UnregisteredSendsAsGuest ==
    [][ ( /\ pushed' # pushed
          /\ last'.socket \notin DOMAIN onlineUsers )
        => /\ onlineUsers' = onlineUsers
           /\ LET m == chatMessages'[Len(chatMessages')]
              IN  /\ m.sender = "Guest"
                  /\ m.userId = Null
                  /\ m.socketId = last'.socket
                  /\ m.message = last'.data.message
                  /\ emitted' =
                        << [event |-> "message",
                            to |-> { s \in Sockets : status[s] = "connected" },
                            payload |-> m] >> ]_vars

\* C14 witness: a socket that never joined has sent a message while the
\* other socket is registered as Ann; the registry still holds Ann alone.
C14_Witness ==
    /\ last.type = "sendMessage"
    /\ last.socket \notin joined
    /\ chatMessages[Len(chatMessages)].userId = Null
    /\ Cardinality(DOMAIN onlineUsers) = 1
    /\ \E i \in Calls("message") : emitted[i].to = Sockets

\* C15 as claimed: the userTyping event caused by a socket without a
\* presence record carries the username Guest.
C15_UnregisteredTypingIsGuest ==
    ( /\ last.type = "typing"
      /\ last.socket \notin DOMAIN onlineUsers )
    => \A i \in Calls("userTyping") : emitted[i].payload.username = "Guest"

\* C15 amended: the typing of a socket without a presence record is handled
\* like any other: one userTyping event goes out and it carries the username
\* the typing payload gives, not a name from the registry and not Guest.
C15_UnregisteredTypingRelaysName ==
    ( /\ last.type = "typing"
      /\ last.socket \notin DOMAIN onlineUsers )
    => /\ Cardinality(Calls("userTyping")) = 1
       /\ \A i \in Calls("userTyping") :
             emitted[i].payload.username = last.data.username

\* C15 witness: a connected socket that never joined sends typing with the
\* username Zed and the other connected socket is sent userTyping for Zed.
C15_Witness ==
    /\ last.type = "typing"
    /\ last.socket \notin joined
    /\ \E i \in Calls("userTyping") :
          /\ emitted[i].payload.username = "Zed"
          /\ emitted[i].to # {}

\* C16: a typing step leaves the message log and the registry as they were
\* and emits exactly one event: userTyping, with the username and isTyping
\* of the payload, to every connected socket but the sender.
C16_TypingOnlyBroadcasts ==
    [][ last'.type = "typing"
        => /\ chatMessages' = chatMessages
           /\ onlineUsers' = onlineUsers
           /\ emitted' =
                 << [event |-> "userTyping",
                     to |-> { s \in Sockets : status[s] = "connected" }
                               \ {last'.socket},
                     payload |-> [username |-> last'.data.username,
                                  isTyping |-> last'.data.isTyping]] >> ]_vars

\* C16 witness: a socket registered as Ann sends typing as Zed when the log
\* holds messages; the other socket is sent the event.
C16_Witness ==
    /\ last.type = "typing"
    /\ last.socket \in DOMAIN onlineUsers
    /\ onlineUsers[last.socket].username = "Ann"
    /\ pushed # << >>
    /\ \E i \in Calls("userTyping") : emitted[i].to # {}

\* C17 as claimed: the ids of the messages ever pushed strictly increase in
\* push order, so no two messages carry the same id.
C17_FreshIds ==
    LET all == Appended
    IN  \A i \in DOMAIN all : \A j \in DOMAIN all :
           i < j => all[i].id < all[j].id

\* C18: a socket whose disconnect was handled has no record in the registry,
\* in that state and in every later one, and a record leaves the registry
\* only by the disconnect of its own socket.
C18_DisconnectedIsTerminal ==
    /\ [](\A c \in Sockets :
             status[c] = "disconnected" => c \notin DOMAIN onlineUsers)
    /\ [][ \A c \in Sockets :
             /\ status[c] = "disconnected" => status'[c] = "disconnected"
             /\ ( c \in DOMAIN onlineUsers /\ c \notin DOMAIN onlineUsers' )
                => (last'.type = "disconnect" /\ last'.socket = c) ]_vars

\* C18 witness: one socket joined and disconnected; afterwards the other
\* socket, registered, has joined again, sent and typed, and still has its
\* record.
C18_Witness ==
    /\ last.type = "typing"
    /\ \E c \in Sockets :
          /\ status[c] = "disconnected"
          /\ c \in joined
          /\ c \notin DOMAIN onlineUsers
    /\ DOMAIN onlineUsers = {last.socket}
    /\ \E i \in DOMAIN pushed :
          /\ pushed[i].socketId = last.socket
          /\ pushed[i].sender = "Ann"


\* C19: no two users share an email, and a register request either is for
\* an email already in the users list, and then is answered 400 'User
\* already exists' with the users list and the activity log unchanged, or
\* appends exactly one user, with that email, and exactly one REGISTER
\* activity for it.
C19_RegisterKeepsEmailsUnique ==
    /\ [](\A i, j \in DOMAIN users :
            users[i].email = users[j].email => i = j)
    /\ [][http'.route = "register" =>
            IF \E i \in DOMAIN users : users[i].email = http'.body.email
            THEN /\ http'.status = 400
                 /\ http'.error = "User already exists"
                 /\ users' = users
                 /\ activities' = activities
            ELSE /\ http'.status = 200
                 /\ Len(users') = Len(users) + 1
                 /\ SubSeq(users', 1, Len(users)) = users
                 /\ users'[Len(users')].email = http'.body.email
                 /\ activities' =
                      Append(activities, [type |-> "REGISTER",
                                          user |-> http'.body.email])]_vars

\* a register request for an email that is taken was refused while every
\* email was registered
C19_Witness ==
    /\ http.route = "register"
    /\ http.status = 400
    /\ { users[i].email : i \in DOMAIN users } = Emails
    /\ Len(activities) >= Len(users)

\* C20: no user is verified and the activity log holds no PAYMENT entry:
\* a payment request is answered 401 when its userId is the id of no user
\* and 403 otherwise, and leaves the activity log as it was; a PAYMENT
\* entry is only ever appended for an existing verified user with method
\* card, paypal or bank.
C20_NoPaymentIsRecorded ==
    /\ [](/\ \A i \in DOMAIN users : ~users[i].verified
          /\ \A k \in DOMAIN activities : activities[k].type # "PAYMENT")
    /\ [][/\ http'.route = "payment" =>
               /\ activities' = activities
               /\ http'.status =
                    IF \E i \in DOMAIN users :
                          users[i].id = http'.body.userId
                    THEN 403 ELSE 401
           /\ \A k \in DOMAIN activities' \ DOMAIN activities :
                 activities'[k].type = "PAYMENT" =>
                    /\ http'.route = "payment"
                    /\ http'.body.method \in {"card", "paypal", "bank"}
                    /\ \E i \in DOMAIN users :
                          /\ users[i].id = http'.body.userId
                          /\ users[i].verified]_vars

\* a registered user asked for a payment by an accepted method and was
\* refused as unverified
C20_Witness ==
    /\ http.route = "payment"
    /\ http.status = 403
    /\ http.body.method \in {"card", "paypal", "bank"}
    /\ \E i \in DOMAIN users : users[i].id = http.body.userId
    /\ activities # << >>

====
